---- MODULE Spec2Model ----
(***************************************************************************)
(* WhatsAppClientWrapper (src/src/api/WA/WhatsAppClientWrapper.ts) with    *)
(* its ClientRepository (src/src/api/WA/items_db_repository.ts).           *)
(*                                                                         *)
(* The wrapper runs on one JavaScript thread.  Every `await` on the        *)
(* repository, the engine (whatsapp-web.js Client), the QR renderer or the *)
(* HTTP client is a suspension point, so operations and event handlers     *)
(* interleave at those points.  One action of this module is: the effect   *)
(* of the awaited external call together with the synchronous code that    *)
(* follows it, up to the next external call being issued.                  *)
(*                                                                         *)
(* convertToOggOpus (src/src/api/WA/AudioconvertToOggOpus.ts) and the      *)
(* apiKeyMiddleware of the router (src/unnamed/part_002) are functions of  *)
(* their arguments; each has a specification of its own, TranscoderSpec    *)
(* and ApiSpec, that applies it to every input up to MaxLen pieces.        *)
(* AudioSpec follows the arguments of a sendAudioAsVoice from the caller,  *)
(* directly or through the route, to convertToOggOpus.                     *)
(***************************************************************************)
EXTENDS Integers, Sequences, FiniteSets, TLC

\* Session ids and webhook destinations used by the callers.
Ids == {"A", "B"}
Urls == {"u1", "u1|u2"}

\* Bounds of the model.
MaxCalls == 2      \* calls made by API callers
MaxEngines == 2    \* engine instances (new Client) ever constructed
MaxEvents == 2    \* qr / ready events ever raised by the engines
MaxInputs == 2    \* API calls and engine events together
MaxLen == 3       \* pieces of a string (audio payload, Authorization header)

\* sendWebhook: const maxRetries = 5
maxRetries == 5

NoRecord == "undefined"   \* getClientById(id) found no row
NoClient == 0             \* this.clients.get(id) === undefined
NoQr == 0                 \* this.qrCodes.get(id) === undefined
NoLimit == 0              \* getChatMessages called without its limit

VARIABLES
    registry,   \* table 'clients': id -> webhook_url, NoRecord when no row
    clients,    \* this.clients: id -> engine instance (index into engines)
    qrCodes,    \* this.qrCodes: id -> cached QR artifact
    authDir,    \* data/wwebjs_auth/session-<id> exists
    engines,    \* every Client constructed so far: [id, st, info]
    init,       \* the initialize() call made at module load
    calls,      \* calls of API operations suspended at an await
    handlers,   \* event handlers suspended at an await
    reply,      \* outcome of the operation that returned in the last step
    removed,    \* ids removed successfully and not added since (history)
    uncaught,   \* error the last step left uncaught or as unhandled rejection
    ncalls,     \* number of API calls made so far
    nev,        \* number of qr / ready events raised so far
    conv,       \* a call of convertToOggOpus taken by itself
    req,        \* a request to the /api router taken by itself
    audio       \* the arguments of a sendAudioAsVoice on their way

\* The state of the wrapper.
wrapper == <<registry, clients, qrCodes, authDir, engines, init, calls,
             handlers, reply, removed, uncaught, ncalls, nev>>

\* The parts of the program that are looked at by themselves.
standalone == <<conv, req, audio>>

vars == <<wrapper, standalone>>

NoReply == [op |-> "none", id |-> "none", res |-> "none"]
NoError == "none"
Reply(op, id, res) == [op |-> op, id |-> id, res |-> res]

----------------------------------------------------------------------------
\* ClientRepository

\* getClientById(id): the row, or null
getClientById(id) == registry[id]

\* listAllClients(): the ids of all rows
listAllClients == {id \in Ids : registry[id] # NoRecord}

\* Mutant: the table takes a second row for an id.
DuplicateKey_Allowed(id) == FALSE

\* table.string('id').primary(): an insert for an id that has a row fails
DuplicateKey(id) == registry[id] # NoRecord

\* createClient(record): insert; 'id' is the primary key
createClientRow(id, url) == [registry EXCEPT ![id] = url]

\* deleteClient(id)
deleteClient(id) == [registry EXCEPT ![id] = NoRecord]

\* updateWebhook(id, webhookUrl): update ... where id; no row, nothing done
updateWebhook(id, url) ==
    IF registry[id] = NoRecord THEN registry
    ELSE [registry EXCEPT ![id] = url]

----------------------------------------------------------------------------
\* Engine instances

Engine(id) == [id |-> id, st |-> "starting", info |-> FALSE, qr |-> FALSE]

SetSt(es, e, st) == [es EXCEPT ![e].st = st]

\* An engine that can raise events: constructed, subscribed, not torn down.
Live(e) == engines[e].st \in {"starting", "up"}

\* All the orders in which a SELECT * may return the rows of a set of ids.
Orders(S) == {s \in UNION {[1..n -> S] : n \in {Cardinality(S)}} :
                 \A i, j \in DOMAIN s : i # j => s[i] # s[j]}

----------------------------------------------------------------------------
\* getClientStatus(id)

\* Mutant: the engine's authentication is looked at before the QR cache.
getClientStatus_InfoFirst(id) ==
    IF clients[id] = NoClient THEN "NotFound"
    ELSE IF engines[clients[id]].info THEN "listo"
    ELSE IF qrCodes[id] # NoQr THEN "qr"
    ELSE "inicializando"

getClientStatus(id) ==
    IF clients[id] = NoClient THEN "NotFound"
    ELSE IF qrCodes[id] # NoQr THEN "qr"
    ELSE IF engines[clients[id]].info THEN "listo"
    ELSE "inicializando"

\* A caller asks for the status; the method is synchronous.
GetClientStatus(id) ==
    /\ reply' = Reply("getClientStatus", id, getClientStatus(id))
    /\ uncaught' = NoError
    /\ UNCHANGED <<registry, clients, qrCodes, authDir, engines, init, calls,
                   handlers, removed, ncalls, nev>>
    /\ UNCHANGED standalone

\* listClients(): clientsInfo.map(client => ({id, webhookUrl,
\* qr: this.getQRCode(client.id), status: this.getClientStatus(client.id)}));
\* getClientStatus throws for a record without a handle, and so does the map.
listClients ==
    IF \E id \in listAllClients : getClientStatus(id) = "NotFound"
    THEN "NotFound"
    ELSE "ok"

\* A caller lists the sessions.  The method does nothing before its await of
\* getClientsInfo(); the step is the one in which listAllClients() resolves
\* and the rows are mapped.
ListClients ==
    /\ ncalls < MaxCalls /\ ncalls + nev < MaxInputs
    /\ ncalls' = ncalls + 1
    /\ reply' = Reply("listClients", "all", listClients)
    /\ uncaught' = NoError
    /\ UNCHANGED <<registry, clients, qrCodes, authDir, engines, init, calls,
                   handlers, removed, nev>>
    /\ UNCHANGED standalone

----------------------------------------------------------------------------
\* createClient(id), first half: the guard and the construction of the engine

\* Mutant: createClient without its guard.
AlreadyInitialized_NoGuard(id) == FALSE

\* if (this.clients.has(id)) { warn; return; }
AlreadyInitialized(id) == clients[id] # NoClient


\* Mutant: the started engine is not stored in the map.
setClient_Forgotten(id, e) == clients

\* this.clients.set(id, client), once await client.initialize() has resolved
setClient(id, e) == [clients EXCEPT ![id] = e]

\* new Client({authStrategy: new LocalAuth({clientId: id, ...})}), the six
\* client.on(...) subscriptions, and the call of client.initialize(), which
\* creates the session folder.  The new instance is Len(es) + 1.
NewClient(es, id) == Append(es, Engine(id))

\* for (const client of clients) await this.createClient(client.id):
\* ids that already have a handle return at once, the loop goes on.
RECURSIVE SkipInitialized(_)
SkipInitialized(todo) ==
    IF todo = <<>> THEN <<>>
    ELSE IF AlreadyInitialized(Head(todo)) THEN SkipInitialized(Tail(todo))
    ELSE todo

----------------------------------------------------------------------------
\* initialize()

\* The loop of initialize() from the records `todo` on, with `es` the engines
\* after the step so far: it runs until the first createClient that has to
\* await client.initialize(), or to the end of the list.
InitLoop(todo, es, listed) ==
    LET rest == SkipInitialized(todo) IN
    IF rest = <<>>
    THEN /\ init' = [pc |-> "done", todo |-> <<>>, eng |-> 0, listed |-> listed]
         /\ engines' = es
         /\ UNCHANGED authDir
    ELSE /\ Len(es) < MaxEngines
         /\ engines' = NewClient(es, Head(rest))
         /\ authDir' = [authDir EXCEPT ![Head(rest)] = TRUE]
         /\ init' = [pc |-> "start", todo |-> Tail(rest), eng |-> Len(es) + 1,
                     listed |-> listed]

\* await initializeClientsTable(); const clients = await listAllClients();
\* then the loop up to its first engine start.
InitList ==
    /\ init.pc = "list"
    /\ \E order \in Orders(listAllClients) :
           InitLoop(order, engines, listAllClients)
    /\ reply' = NoReply
    /\ uncaught' = NoError
    /\ UNCHANGED <<removed, registry, clients, qrCodes, calls, handlers,
                   ncalls, nev>>
    /\ UNCHANGED standalone

\* await client.initialize() resolved: this.clients.set(id, client); the loop
\* goes on with the next record.
InitStarted ==
    /\ init.pc = "start"
    /\ engines[init.eng].st = "starting"
    /\ clients' = setClient(engines[init.eng].id, init.eng)
    /\ InitLoop(init.todo, SetSt(engines, init.eng, "up"), init.listed)
    /\ reply' = NoReply
    /\ uncaught' = NoError
    /\ UNCHANGED <<removed, registry, qrCodes, calls, handlers, ncalls, nev>>
    /\ UNCHANGED standalone

\* A promise nobody awaits or catches has rejected, or a callback has thrown:
\* the error reaches the process as unhandled rejection or uncaught exception.
Rejected(by) == by

\* await client.initialize() rejected: createClient rethrows, and the loop of
\* initialize() has no try/catch, so initialize() rejects with the records
\* after this one not started.  The module calls whatsappWrapper.initialize()
\* without await or catch.
InitStartFailed ==
    /\ init.pc = "start"
    /\ engines[init.eng].st = "starting"
    /\ engines' = SetSt(engines, init.eng, "failed")
    /\ init' = [init EXCEPT !.pc = "failed", !.eng = 0]
    /\ uncaught' = Rejected("initialize")
    /\ reply' = NoReply
    /\ UNCHANGED <<removed, registry, clients, qrCodes, authDir, calls,
                   handlers, ncalls, nev>>
    /\ UNCHANGED standalone

----------------------------------------------------------------------------
\* addClient({id, webhookUrl})

Call(op, id, url, pc, eng) ==
    [op |-> op, id |-> id, url |-> url, pc |-> pc, eng |-> eng,
     limit |-> NoLimit, todo |-> <<>>]

AtPc(c, pc) == [c EXCEPT !.pc = pc]

\* Mutant: addClient without the check for an existing record.
existingClient_Unchecked(id) == FALSE

\* const existingClient = await getClientById(id); if (existingClient) throw
existingClient(id) == getClientById(id) # NoRecord

\* The call up to the issue of the insert.
AddClient(id, url) ==
    /\ ncalls < MaxCalls /\ ncalls + nev < MaxInputs
    /\ ncalls' = ncalls + 1
    /\ IF existingClient(id)
       THEN /\ reply' = Reply("addClient", id, "Conflict")
            /\ UNCHANGED calls
       ELSE /\ Call("addClient", id, url, "insert", 0) \notin calls
            /\ reply' = NoReply
            /\ calls' = calls \cup {Call("addClient", id, url, "insert", 0)}
    /\ removed' = IF existingClient(id) THEN removed ELSE removed \ {id}
    /\ uncaught' = NoError
    /\ UNCHANGED <<registry, clients, qrCodes, authDir, engines, init,
                   handlers, nev>>
    /\ UNCHANGED standalone

\* await createClient(newClient) of the repository failed: the primary key
\* rejects a second row for the id; the error is rethrown, nothing is undone.
AddClientInsertFailed(c) ==
    /\ c \in calls /\ c.op = "addClient" /\ c.pc = "insert"
    /\ DuplicateKey(c.id)
    /\ calls' = calls \ {c}
    /\ reply' = Reply("addClient", c.id, "DbError")
    /\ uncaught' = NoError
    /\ UNCHANGED <<removed, registry, clients, qrCodes, authDir, engines,
                   init, handlers, ncalls, nev>>
    /\ UNCHANGED standalone

\* The insert succeeded; then createClient(id): a no-op when the id has a
\* handle (addClient returns), else the engine is constructed and started.
AddClientInserted(c) ==
    /\ c \in calls /\ c.op = "addClient" /\ c.pc = "insert"
    /\ ~DuplicateKey(c.id)
    /\ registry' = createClientRow(c.id, c.url)
    /\ IF AlreadyInitialized(c.id)
       THEN /\ calls' = calls \ {c}
            /\ reply' = Reply("addClient", c.id, "ok")
            /\ UNCHANGED <<engines, authDir>>
       ELSE /\ Len(engines) < MaxEngines
            /\ engines' = NewClient(engines, c.id)
            /\ authDir' = [authDir EXCEPT ![c.id] = TRUE]
            /\ calls' = (calls \ {c})
                           \cup {[c EXCEPT !.pc = "start",
                                           !.eng = Len(engines) + 1]}
            /\ reply' = NoReply
    /\ uncaught' = NoError
    /\ UNCHANGED <<removed, clients, qrCodes, init, handlers, ncalls, nev>>
    /\ UNCHANGED standalone

\* await client.initialize() resolved: this.clients.set(id, client);
\* createClient and addClient return.
AddClientStarted(c) ==
    /\ c \in calls /\ c.op = "addClient" /\ c.pc = "start"
    /\ engines[c.eng].st = "starting"
    /\ engines' = SetSt(engines, c.eng, "up")
    /\ clients' = setClient(c.id, c.eng)
    /\ calls' = calls \ {c}
    /\ reply' = Reply("addClient", c.id, "ok")
    /\ uncaught' = NoError
    /\ UNCHANGED <<removed, registry, qrCodes, authDir, init, handlers,
                   ncalls, nev>>
    /\ UNCHANGED standalone

\* await client.initialize() rejected: createClient rethrows, addClient
\* issues deleteClient(id).
AddClientStartFailed(c) ==
    /\ c \in calls /\ c.op = "addClient" /\ c.pc = "start"
    /\ engines[c.eng].st = "starting"
    /\ engines' = SetSt(engines, c.eng, "failed")
    /\ calls' = (calls \ {c}) \cup {AtPc(c, "rollback")}
    /\ reply' = NoReply
    /\ uncaught' = NoError
    /\ UNCHANGED <<removed, registry, clients, qrCodes, authDir, init,
                   handlers, ncalls, nev>>
    /\ UNCHANGED standalone

\* await deleteClient(id) done; throw error.
AddClientRolledBack(c) ==
    /\ c \in calls /\ c.op = "addClient" /\ c.pc = "rollback"
    /\ registry' = deleteClient(c.id)
    /\ calls' = calls \ {c}
    /\ reply' = Reply("addClient", c.id, "EngineError")
    /\ uncaught' = NoError
    /\ UNCHANGED <<removed, clients, qrCodes, authDir, engines, init,
                   handlers, ncalls, nev>>
    /\ UNCHANGED standalone

----------------------------------------------------------------------------
\* restoreSessions(configs)

\* The arguments of restoreSessions: up to two configs, one per id, each with
\* the webhookUrl `url`.
Configs == UNION {Orders(S) : S \in (SUBSET Ids) \ {{}}}

\* Mutant: the first failure ends the loop.
afterCatch_Abort(todo) == <<>>

\* catch (error) { console.error(...) } is inside the for loop: the configs
\* that are left are gone through all the same.
afterCatch(todo) == todo

\* The loop takes the next config of `todo` and issues getClientById(id), or
\* restoreSessions returns when none is left.
RestoreLoop(c, todo) ==
    IF todo = <<>>
    THEN /\ calls' = calls \ {c}
         /\ reply' = Reply("restoreSessions", "all", "ok")
    ELSE /\ calls' = (calls \ {c}) \cup
                         {[c EXCEPT !.id = Head(todo), !.todo = Tail(todo),
                                    !.pc = "get", !.eng = 0]}
         /\ reply' = NoReply

\* await this.createClient(id) inside restoreSessions: a no-op when the id
\* has a handle (the loop goes on), else the engine is constructed and
\* started.
RestoreCreateClient(c) ==
    IF AlreadyInitialized(c.id)
    THEN /\ RestoreLoop(c, c.todo)
         /\ UNCHANGED <<engines, authDir>>
    ELSE /\ Len(engines) < MaxEngines
         /\ engines' = NewClient(engines, c.id)
         /\ authDir' = [authDir EXCEPT ![c.id] = TRUE]
         /\ calls' = (calls \ {c})
                        \cup {[c EXCEPT !.pc = "start",
                                        !.eng = Len(engines) + 1]}
         /\ reply' = NoReply

\* A caller invokes restoreSessions: the loop takes the first config.  One
\* restoreSessions runs at a time.
RestoreSessions(configs, url) ==
    /\ ncalls < MaxCalls /\ ncalls + nev < MaxInputs
    /\ ncalls' = ncalls + 1
    /\ \A o \in calls : o.op # "restoreSessions"
    /\ calls' = calls \cup
                    {[Call("restoreSessions", Head(configs), url, "get", 0)
                         EXCEPT !.todo = Tail(configs)]}
    /\ reply' = NoReply
    /\ uncaught' = NoError
    /\ UNCHANGED <<removed, registry, clients, qrCodes, authDir, engines,
                   init, handlers, nev>>
    /\ UNCHANGED standalone

\* await getClientById(id) resolved: without a record the insert is issued,
\* with one createClient(id) is called.
RestoreLookedUp(c) ==
    /\ c \in calls /\ c.op = "restoreSessions" /\ c.pc = "get"
    /\ IF existingClient(c.id)
       THEN RestoreCreateClient(c)
       ELSE /\ calls' = (calls \ {c}) \cup {AtPc(c, "insert")}
            /\ reply' = NoReply
            /\ UNCHANGED <<engines, authDir>>
    /\ uncaught' = NoError
    /\ UNCHANGED <<removed, registry, clients, qrCodes, init, handlers,
                   ncalls, nev>>
    /\ UNCHANGED standalone

\* await createClient(newClient) of the repository resolved: the record is
\* saved, createClient(id) is called.
RestoreInserted(c) ==
    /\ c \in calls /\ c.op = "restoreSessions" /\ c.pc = "insert"
    /\ ~DuplicateKey(c.id)
    /\ registry' = createClientRow(c.id, c.url)
    /\ RestoreCreateClient(c)
    /\ uncaught' = NoError
    /\ UNCHANGED <<removed, clients, qrCodes, init, handlers, ncalls, nev>>
    /\ UNCHANGED standalone

\* The insert rejected (the id has got a record meanwhile): caught and
\* logged, createClient(id) is not called for this config.
RestoreInsertFailed(c) ==
    /\ c \in calls /\ c.op = "restoreSessions" /\ c.pc = "insert"
    /\ DuplicateKey(c.id)
    /\ RestoreLoop(c, afterCatch(c.todo))
    /\ uncaught' = NoError
    /\ UNCHANGED <<removed, registry, clients, qrCodes, authDir, engines,
                   init, handlers, ncalls, nev>>
    /\ UNCHANGED standalone

\* await client.initialize() resolved: this.clients.set(id, client); the
\* loop goes on.
RestoreStarted(c) ==
    /\ c \in calls /\ c.op = "restoreSessions" /\ c.pc = "start"
    /\ engines[c.eng].st = "starting"
    /\ engines' = SetSt(engines, c.eng, "up")
    /\ clients' = setClient(c.id, c.eng)
    /\ RestoreLoop(c, c.todo)
    /\ uncaught' = NoError
    /\ UNCHANGED <<removed, registry, qrCodes, authDir, init, handlers,
                   ncalls, nev>>
    /\ UNCHANGED standalone

\* await client.initialize() rejected: createClient rethrows, the catch of
\* restoreSessions logs, the loop goes on.
RestoreStartFailed(c) ==
    /\ c \in calls /\ c.op = "restoreSessions" /\ c.pc = "start"
    /\ engines[c.eng].st = "starting"
    /\ engines' = SetSt(engines, c.eng, "failed")
    /\ RestoreLoop(c, afterCatch(c.todo))
    /\ uncaught' = NoError
    /\ UNCHANGED <<removed, registry, clients, qrCodes, authDir, init,
                   handlers, ncalls, nev>>
    /\ UNCHANGED standalone

----------------------------------------------------------------------------
\* removeClient(id)

\* deleteFolder(): fs.rm(sessionPath, {recursive: true}) when it exists
deleteFolder(id) == [authDir EXCEPT ![id] = FALSE]

\* deleteFolder() as called by removeClient: the folder is removed, or fs.rm
\* reports err to its callback, which throws it (nothing is around the
\* callback to catch it).
DeleteFolder(id) ==
    \/ /\ authDir' = deleteFolder(id)
       /\ uncaught' = NoError
    \/ /\ authDir[id]
       /\ UNCHANGED authDir
       /\ uncaught' = Rejected("deleteFolder")

\* const client = this.clients.get(id); without a handle: deleteFolder() and
\* throw 'no encontrado'; with one: await client.destroy() is issued.
RemoveClient(id) ==
    /\ ncalls < MaxCalls /\ ncalls + nev < MaxInputs
    /\ ncalls' = ncalls + 1
    /\ IF clients[id] = NoClient
       THEN /\ DeleteFolder(id)
            /\ reply' = Reply("removeClient", id, "NotFound")
            /\ UNCHANGED calls
       ELSE /\ Call("removeClient", id, "none", "destroy", clients[id])
                   \notin calls
            /\ calls' = calls \cup
                           {Call("removeClient", id, "none", "destroy",
                                 clients[id])}
            /\ reply' = NoReply
            /\ uncaught' = NoError
            /\ UNCHANGED authDir
    /\ UNCHANGED <<removed, registry, clients, qrCodes, engines, init,
                   handlers, nev>>
    /\ UNCHANGED standalone

\* Mutant: the engine is not torn down before the durable state is deleted.
destroy_Omitted(es, e) == es

\* await client.destroy(): the browser is closed, the engine raises no more
\* events.
destroy(es, e) == SetSt(es, e, "destroyed")

\* await client.destroy() resolved; this.clients.delete(id); deleteClient(id)
\* of the repository is issued.
RemoveDestroyed(c) ==
    /\ c \in calls /\ c.op = "removeClient" /\ c.pc = "destroy"
    /\ engines' = destroy(engines, c.eng)
    /\ clients' = [clients EXCEPT ![c.id] = NoClient]
    /\ calls' = (calls \ {c}) \cup {AtPc(c, "delete")}
    /\ reply' = NoReply
    /\ uncaught' = NoError
    /\ UNCHANGED <<removed, registry, qrCodes, authDir, init, handlers,
                   ncalls, nev>>
    /\ UNCHANGED standalone

\* await client.destroy() rejected: logged and rethrown.
RemoveDestroyFailed(c) ==
    /\ c \in calls /\ c.op = "removeClient" /\ c.pc = "destroy"
    /\ calls' = calls \ {c}
    /\ reply' = Reply("removeClient", c.id, "EngineError")
    /\ uncaught' = NoError
    /\ UNCHANGED <<removed, registry, clients, qrCodes, authDir, engines,
                   init, handlers, ncalls, nev>>
    /\ UNCHANGED standalone

\* await deleteClient(id) done; this.qrCodes.delete(id); deleteFolder().
RemoveDeleted(c) ==
    /\ c \in calls /\ c.op = "removeClient" /\ c.pc = "delete"
    /\ registry' = deleteClient(c.id)
    /\ qrCodes' = [qrCodes EXCEPT ![c.id] = NoQr]
    /\ DeleteFolder(c.id)
    /\ calls' = calls \ {c}
    /\ reply' = Reply("removeClient", c.id, "ok")
    /\ removed' = removed \cup {c.id}
    /\ UNCHANGED <<clients, engines, init, handlers, ncalls, nev>>
    /\ UNCHANGED standalone

\* await deleteClient(id) rejected (the query failed): logged and rethrown;
\* the engine is destroyed and out of the map by then.
RemoveDeleteFailed(c) ==
    /\ c \in calls /\ c.op = "removeClient" /\ c.pc = "delete"
    /\ calls' = calls \ {c}
    /\ reply' = Reply("removeClient", c.id, "DbError")
    /\ uncaught' = NoError
    /\ UNCHANGED <<removed, registry, clients, qrCodes, authDir, engines,
                   init, handlers, ncalls, nev>>
    /\ UNCHANGED standalone

----------------------------------------------------------------------------
\* setWebhook(id, url)

\* const client = this.clients.get(id); if (!client) throw 'no encontrado';
\* else await this.clientRepository.updateWebhook(id, url) is issued.
SetWebhook(id, url) ==
    /\ ncalls < MaxCalls /\ ncalls + nev < MaxInputs
    /\ ncalls' = ncalls + 1
    /\ IF clients[id] = NoClient
       THEN /\ reply' = Reply("setWebhook", id, "NotFound")
            /\ UNCHANGED calls
       ELSE /\ Call("setWebhook", id, url, "update", 0) \notin calls
            /\ calls' = calls \cup {Call("setWebhook", id, url, "update", 0)}
            /\ reply' = NoReply
    /\ uncaught' = NoError
    /\ UNCHANGED <<removed, registry, clients, qrCodes, authDir, engines,
                   init, handlers, nev>>
    /\ UNCHANGED standalone

\* await updateWebhook(id, url) resolved: setWebhook returns.
SetWebhookUpdated(c) ==
    /\ c \in calls /\ c.op = "setWebhook" /\ c.pc = "update"
    /\ registry' = updateWebhook(c.id, c.url)
    /\ calls' = calls \ {c}
    /\ reply' = Reply("setWebhook", c.id, "ok")
    /\ uncaught' = NoError
    /\ UNCHANGED <<removed, clients, qrCodes, authDir, engines, init,
                   handlers, ncalls, nev>>
    /\ UNCHANGED standalone

\* await updateWebhook(id, url) rejected (the query failed): logged and
\* rethrown.
SetWebhookFailed(c) ==
    /\ c \in calls /\ c.op = "setWebhook" /\ c.pc = "update"
    /\ calls' = calls \ {c}
    /\ reply' = Reply("setWebhook", c.id, "DbError")
    /\ uncaught' = NoError
    /\ UNCHANGED <<removed, registry, clients, qrCodes, authDir, engines,
                   init, handlers, ncalls, nev>>
    /\ UNCHANGED standalone

----------------------------------------------------------------------------
\* Event handlers registered by createClient, and sendWebhook

Handler(e, type, qr, pc) ==
    [eng |-> e, id |-> engines[e].id, type |-> type, qr |-> qr, pc |-> pc,
     dest |-> NoRecord, url |-> NoRecord, attempt |-> 0, delay |-> 0,
     media |-> FALSE]

\* Mutant: a newer event of an engine supersedes its deliveries in flight.
emit_Superseding(hs, h) == {o \in hs : o.eng # h.eng} \cup {h}

\* The engine emits an event: the listener registered with client.on(...) is
\* called and runs to its first await; the listeners called for earlier
\* events stay suspended where they are, nobody awaits them.
emit(hs, h) == hs \cup {h}

\* The engine raises 'qr' while it is not authenticated.  client.on('qr'):
\* the handler is suspended in await qrcode.toDataURL(qr).
QrEvent(e) ==
    /\ e \in DOMAIN engines /\ Live(e) /\ ~engines[e].info
    /\ nev < MaxEvents /\ ncalls + nev < MaxInputs
    /\ nev' = nev + 1
    /\ engines' = [engines EXCEPT ![e].qr = TRUE]
    /\ handlers' = emit(handlers, Handler(e, "qr", nev + 1, "render"))
    /\ reply' = NoReply
    /\ uncaught' = NoError
    /\ UNCHANGED <<removed, registry, clients, qrCodes, authDir, init, calls,
                   ncalls>>
    /\ UNCHANGED standalone

\* toDataURL resolved: this.qrCodes.set(id, qrBase64); getWebhookUrl(id) is
\* issued.
QrRendered(h) ==
    /\ h \in handlers /\ h.type = "qr" /\ h.pc = "render"
    /\ qrCodes' = [qrCodes EXCEPT ![h.id] = h.qr]
    /\ handlers' = (handlers \ {h}) \cup {[h EXCEPT !.pc = "lookup"]}
    /\ reply' = NoReply
    /\ uncaught' = NoError
    /\ UNCHANGED <<removed, registry, clients, authDir, engines, init, calls,
                   ncalls, nev>>
    /\ UNCHANGED standalone

\* toDataURL rejected: the await is outside any try, the async listener
\* rejects, and the emitter drops the promise a listener returns.
QrRenderFailed(h) ==
    /\ h \in handlers /\ h.type = "qr" /\ h.pc = "render"
    /\ handlers' = handlers \ {h}
    /\ uncaught' = Rejected("qr")
    /\ reply' = NoReply
    /\ UNCHANGED <<removed, registry, clients, qrCodes, authDir, engines,
                   init, calls, ncalls, nev>>
    /\ UNCHANGED standalone

\* Mutant: a lost or failed session gives up its cached QR artifact.
qrCodesAfter_ClearedOnLoss(type, id) ==
    IF type \in {"ready", "disconnected", "auth_failure"}
    THEN [qrCodes EXCEPT ![id] = NoQr]
    ELSE qrCodes

\* The QR cache after the synchronous head of the listener of `type`: the
\* 'ready' listener does this.qrCodes.delete(id); the listeners of 'message',
\* 'disconnected', 'auth_failure' and 'change_state' have no statement on it.
qrCodesAfter(type, id) ==
    IF type = "ready" THEN [qrCodes EXCEPT ![id] = NoQr] ELSE qrCodes

\* The engine is authenticated: it sets client.info and raises 'ready'.
\* client.on('ready'): this.qrCodes.delete(id); getWebhookUrl(id) is issued.
ReadyEvent(e) ==
    /\ e \in DOMAIN engines /\ Live(e) /\ ~engines[e].info
    /\ nev < MaxEvents /\ ncalls + nev < MaxInputs
    /\ nev' = nev + 1
    /\ engines' = [engines EXCEPT ![e].info = TRUE]
    /\ qrCodes' = qrCodesAfter("ready", engines[e].id)
    /\ handlers' = emit(handlers, Handler(e, "ready", NoQr, "lookup"))
    /\ reply' = NoReply
    /\ uncaught' = NoError
    /\ UNCHANGED <<removed, registry, clients, authDir, init, calls, ncalls>>
    /\ UNCHANGED standalone

\* The events with a listener that only notifies the webhook.
NotifyTypes == {"message", "disconnected", "auth_failure", "change_state"}

\* The engine raises 'message', 'disconnected', 'auth_failure' or
\* 'change_state': the listener logs and issues getWebhookUrl(id).  media is
\* msg.hasMedia of a message.  One event of a kind is in flight per engine.
EngineEvent(e, type, media) ==
    /\ e \in DOMAIN engines /\ Live(e)
    /\ media => type = "message"
    /\ nev < MaxEvents /\ ncalls + nev < MaxInputs
    /\ nev' = nev + 1
    /\ \A o \in handlers : ~(o.eng = e /\ o.type = type /\ o.media = media)
    /\ handlers' = emit(handlers, [Handler(e, type, NoQr, "lookup")
                                      EXCEPT !.media = media])
    /\ qrCodes' = qrCodesAfter(type, engines[e].id)
    /\ reply' = NoReply
    /\ uncaught' = NoError
    /\ UNCHANGED <<removed, registry, clients, authDir, engines, init, calls,
                   ncalls>>
    /\ UNCHANGED standalone

\* Mutant: the destination of another session is looked up.
getWebhookUrl_OtherSession(id) ==
    getClientById(CHOOSE o \in Ids : o # id)

\* Mutant: a default destination when the session has no row.
getWebhookUrl_Default(id) ==
    IF getClientById(id) = NoRecord THEN "u1" ELSE getClientById(id)

\* getWebhookUrl(id): client?.webhook_url of the row, undefined without one
getWebhookUrl(id) == getClientById(id)

\* const webhookUrl = await this.getWebhookUrl(id): without one the handler
\* ends; with one sendWebhook(webhookUrl, data) issues its first
\* axios.post(url, data), url being the destination string as stored.
WebhookLookup(h) ==
    /\ h \in handlers /\ h.pc = "lookup" /\ ~h.media
    /\ handlers' = IF getWebhookUrl(h.id) = NoRecord
                   THEN handlers \ {h}
                   ELSE (handlers \ {h}) \cup
                            {[h EXCEPT !.pc = "post", !.attempt = 1,
                                       !.dest = getWebhookUrl(h.id),
                                       !.url = getWebhookUrl(h.id)]}
    /\ reply' = IF getWebhookUrl(h.id) = NoRecord
                THEN Reply(h.type, h.id, "dropped")
                ELSE NoReply
    /\ uncaught' = NoError
    /\ UNCHANGED <<removed, registry, clients, qrCodes, authDir, engines,
                   init, calls, ncalls, nev>>
    /\ UNCHANGED standalone

\* The 'message' listener for a message with media: without a destination
\* the handler ends; with one, await msg.downloadMedia() is issued before
\* sendWebhook.
MessageLookup(h) ==
    /\ h \in handlers /\ h.pc = "lookup" /\ h.media
    /\ handlers' = IF getWebhookUrl(h.id) = NoRecord
                   THEN handlers \ {h}
                   ELSE (handlers \ {h}) \cup
                            {[h EXCEPT !.pc = "download",
                                       !.dest = getWebhookUrl(h.id),
                                       !.url = getWebhookUrl(h.id)]}
    /\ reply' = IF getWebhookUrl(h.id) = NoRecord
                THEN Reply(h.type, h.id, "dropped")
                ELSE NoReply
    /\ uncaught' = NoError
    /\ UNCHANGED <<removed, registry, clients, qrCodes, authDir, engines,
                   init, calls, ncalls, nev>>
    /\ UNCHANGED standalone

\* await msg.downloadMedia() resolved (with the media or without): the
\* payload is completed and sendWebhook issues its first axios.post.
MediaDownloaded(h) ==
    /\ h \in handlers /\ h.pc = "download"
    /\ handlers' = (handlers \ {h}) \cup {[h EXCEPT !.pc = "post", !.attempt = 1]}
    /\ reply' = NoReply
    /\ uncaught' = NoError
    /\ UNCHANGED <<removed, registry, clients, qrCodes, authDir, engines,
                   init, calls, ncalls, nev>>
    /\ UNCHANGED standalone

\* await msg.downloadMedia() rejected: it is inside the try of the listener,
\* the catch logs and the listener ends without a POST.
MediaDownloadFailed(h) ==
    /\ h \in handlers /\ h.pc = "download"
    /\ handlers' = handlers \ {h}
    /\ reply' = Reply(h.type, h.id, "MediaError")
    /\ uncaught' = NoError
    /\ UNCHANGED <<removed, registry, clients, qrCodes, authDir, engines,
                   init, calls, ncalls, nev>>
    /\ UNCHANGED standalone

\* await this.getWebhookUrl(id) rejected (the query failed): the await is
\* outside the try of the listener, which rejects.
WebhookLookupFailed(h) ==
    /\ h \in handlers /\ h.pc = "lookup"
    /\ handlers' = handlers \ {h}
    /\ uncaught' = Rejected("getWebhookUrl")
    /\ reply' = NoReply
    /\ UNCHANGED <<removed, registry, clients, qrCodes, authDir, engines,
                   init, calls, ncalls, nev>>
    /\ UNCHANGED standalone

\* await axios.post(url, data) resolved: return.
PostSucceeded(h) ==
    /\ h \in handlers /\ h.pc = "post"
    /\ handlers' = handlers \ {h}
    /\ reply' = Reply(h.type, h.id, "delivered")
    /\ uncaught' = NoError
    /\ UNCHANGED <<removed, registry, clients, qrCodes, authDir, engines,
                   init, calls, ncalls, nev>>
    /\ UNCHANGED standalone

\* Mutant: the same delay before every retry.
retryDelay_Constant(attempt) == 1000

\* setTimeout(resolve, 1000 * attempt)
retryDelay(attempt) == 1000 * attempt

\* Mutant: an event whose delivery failed is kept and sent again.
GiveUp_Replayed(h) ==
    (handlers \ {h}) \cup {[h EXCEPT !.attempt = 1, !.delay = 0]}

\* if (attempt === maxRetries) { console.error(...); return; }: sendWebhook
\* and the listener that awaited it return.
GiveUp(h) == handlers \ {h}

\* await axios.post(url, data) rejected: give up at attempt maxRetries, else
\* sleep retryDelay(attempt) ms and issue the next axios.post of the loop.
PostFailed(h) ==
    /\ h \in handlers /\ h.pc = "post"
    /\ handlers' = IF h.attempt = maxRetries
                   THEN GiveUp(h)
                   ELSE (handlers \ {h}) \cup
                            {[h EXCEPT !.attempt = h.attempt + 1,
                                       !.delay = retryDelay(h.attempt)]}
    /\ reply' = IF h.attempt = maxRetries
                THEN Reply(h.type, h.id, "gaveUp")
                ELSE NoReply
    /\ uncaught' = NoError
    /\ UNCHANGED <<removed, registry, clients, qrCodes, authDir, engines,
                   init, calls, ncalls, nev>>
    /\ UNCHANGED standalone

----------------------------------------------------------------------------
\* The messaging operations: sendMessage, sendMedia, sendAudioAsVoice,
\* getContacts, getChatMessages, and reactToMessage of the later version of
\* the wrapper

FacadeOps == {"sendMessage", "sendMedia", "sendAudioAsVoice", "getContacts",
              "getChatMessages", "reactToMessage"}

\* Mutant: the audio is handed to the engine as received.
firstAwait_NoTranscode(op) ==
    CASE op \in {"sendMessage", "sendMedia", "sendAudioAsVoice"} -> "send"
      [] op = "getContacts" -> "getContacts"
      [] OTHER -> "getChatById"

\* The first call an operation awaits once it has found the handle.
firstAwait(op) ==
    CASE op \in {"sendMessage", "sendMedia"} -> "send"
      [] op = "sendAudioAsVoice" -> "transcode"
      [] op = "getContacts" -> "getContacts"
      [] OTHER -> "getChatById"

\* The call awaited after the engine call `pc` of `op` has resolved; "return"
\* when the operation is done.
nextAwait(op, pc) ==
    CASE pc = "getChatById" -> "fetchMessages"
      [] pc = "fetchMessages" /\ op = "reactToMessage" -> "react"
      [] OTHER -> "return"

\* What the caller gets when the operation throws `error`: reactToMessage
\* catches everything it throws, logs it and resolves.
Thrown(op, error) == IF op = "reactToMessage" THEN "ok" ELSE error

\* if (this.getClientStatus(id) === 'qr') throw: sendMessage only
NotReady(op, id) == op = "sendMessage" /\ getClientStatus(id) = "qr"

\* The values of the optional parameter limit of getChatMessages.
Limits == {NoLimit, 50}

\* The values a caller can give the parameters only `op` has.
LimitsOf(op) == IF op = "getChatMessages" THEN Limits ELSE {NoLimit}

\* A caller invokes a messaging operation: const client =
\* this.clients.get(id); if (!client) throw 'no encontrado'; then the first
\* awaited call is issued on the handle.
Facade(op, id) ==
    /\ ncalls < MaxCalls /\ ncalls + nev < MaxInputs
    /\ ncalls' = ncalls + 1
    /\ IF clients[id] = NoClient
       THEN /\ reply' = Reply(op, id, Thrown(op, "NotFound"))
            /\ UNCHANGED calls
       ELSE IF NotReady(op, id)
       THEN /\ reply' = Reply(op, id, "NotReady")
            /\ UNCHANGED calls
       ELSE /\ \E limit \in LimitsOf(op) :
                   LET c == [Call(op, id, "none", firstAwait(op), clients[id])
                                EXCEPT !.limit = limit]
                   IN  c \notin calls /\ calls' = calls \cup {c}
            /\ reply' = NoReply
    /\ uncaught' = NoError
    /\ UNCHANGED <<removed, registry, clients, qrCodes, authDir, engines,
                   init, handlers, nev>>
    /\ UNCHANGED standalone

\* await convertToOggOpus(...) resolved: client.sendMessage(to, media,
\* {sendAudioAsVoice: true}) is issued.
Transcoded(c) ==
    /\ c \in calls /\ c.op = "sendAudioAsVoice" /\ c.pc = "transcode"
    /\ calls' = (calls \ {c}) \cup {AtPc(c, "send")}
    /\ reply' = NoReply
    /\ uncaught' = NoError
    /\ UNCHANGED <<removed, registry, clients, qrCodes, authDir, engines,
                   init, handlers, ncalls, nev>>
    /\ UNCHANGED standalone

\* await convertToOggOpus(...) rejected: logged and rethrown.
TranscodeFailed(c) ==
    /\ c \in calls /\ c.op = "sendAudioAsVoice" /\ c.pc = "transcode"
    /\ calls' = calls \ {c}
    /\ reply' = Reply(c.op, c.id, "ConversionError")
    /\ uncaught' = NoError
    /\ UNCHANGED <<removed, registry, clients, qrCodes, authDir, engines,
                   init, handlers, ncalls, nev>>
    /\ UNCHANGED standalone

\* The awaited call on the handle resolved: the next one is issued, or the
\* operation returns.
EngineCallResolved(c) ==
    /\ c \in calls /\ c.op \in FacadeOps /\ c.pc # "transcode"
    /\ IF nextAwait(c.op, c.pc) = "return"
       THEN /\ calls' = calls \ {c}
            /\ reply' = Reply(c.op, c.id, "ok")
       ELSE /\ calls' = (calls \ {c}) \cup {AtPc(c, nextAwait(c.op, c.pc))}
            /\ reply' = NoReply
    /\ uncaught' = NoError
    /\ UNCHANGED <<removed, registry, clients, qrCodes, authDir, engines,
                   init, handlers, ncalls, nev>>
    /\ UNCHANGED standalone

\* The awaited call on the handle rejected: logged and rethrown.
EngineCallRejected(c) ==
    /\ c \in calls /\ c.op \in FacadeOps /\ c.pc # "transcode"
    /\ calls' = calls \ {c}
    /\ reply' = Reply(c.op, c.id, Thrown(c.op, "EngineError"))
    /\ uncaught' = NoError
    /\ UNCHANGED <<removed, registry, clients, qrCodes, authDir, engines,
                   init, handlers, ncalls, nev>>
    /\ UNCHANGED standalone

\* Mutant: the chat is looked at only when a limit was given.
ChatChecked_OnlyWithLimit(limit) == limit # NoLimit

\* if (!chat) throw ...: the test stands between getChatById and
\* chat.fetchMessages({limit}) and does not look at limit.
ChatChecked(limit) == TRUE

\* getChatById resolved without a chat, or (reactToMessage) the message is
\* not among the 50 fetched: throw new Error('no se encontro').
TargetNotFound(c) ==
    /\ c \in calls
    /\ \/ c.op \in {"getChatMessages", "reactToMessage"} /\ c.pc = "getChatById"
       \/ c.op = "reactToMessage" /\ c.pc = "fetchMessages"
    /\ IF ChatChecked(c.limit)
       THEN /\ calls' = calls \ {c}
            /\ reply' = Reply(c.op, c.id, Thrown(c.op, "NotFound"))
       ELSE /\ calls' = (calls \ {c}) \cup {AtPc(c, "fetchMessages")}
            /\ reply' = NoReply
    /\ uncaught' = NoError
    /\ UNCHANGED <<removed, registry, clients, qrCodes, authDir, engines,
                   init, handlers, ncalls, nev>>
    /\ UNCHANGED standalone

----------------------------------------------------------------------------
\* The router mounted at /api and its apiKeyMiddleware (src/unnamed/part_002)

\* req.header('Authorization') is undefined
NoHeader == <<"undefined">>

\* A header value is a sequence of pieces: the scheme in two spellings, a
\* blank, a configured key, a string that is no configured key.
HeaderPieces == {"Bearer", "bearer", " ", "k1", "kx"}

Headers == {NoHeader} \cup UNION {[1..n -> HeaderPieces] : n \in 0..MaxLen}

\* ENV.API_KEYS
API_KEYS == {<<"k1">>}

\* authHeader.split(' ')
RECURSIVE split(_)
split(s) ==
    IF \A i \in 1..Len(s) : s[i] # " " THEN <<s>>
    ELSE LET i == CHOOSE k \in 1..Len(s) :
                      s[k] = " " /\ \A j \in 1..(k - 1) : s[j] # " "
         IN  <<SubSeq(s, 1, i - 1)>> \o split(SubSeq(s, i + 1, Len(s)))

\* Mutant: any key is accepted.
includesKey_Any(apiKey) == TRUE

\* ENV.API_KEYS.includes(apiKey)
includesKey(apiKey) == apiKey \in API_KEYS

\* apiKeyMiddleware: the status it responds with, or "next" when it calls
\* next()
apiKeyMiddleware(authHeader) ==
    IF authHeader = NoHeader \/ authHeader = <<>> THEN "401"
    ELSE LET parts == split(authHeader) IN
         IF Len(parts) # 2 \/ parts[1] # <<"Bearer">> THEN "400"
         ELSE IF ~includesKey(parts[2]) THEN "403"
         ELSE "next"

\* The routes of the router, each by the wrapper operation its handler calls.
Routes == {"addClient", "listClients", "getClientStatus", "removeClient",
           "setWebhook", "sendMessage", "sendMedia", "getQRCode",
           "getContacts", "getChatMessages", "sendAudioAsVoice"}

Request(auth, route, pc) ==
    [auth |-> auth, route |-> route, pc |-> pc, status |-> "none",
     called |-> "none"]

NoRequest == Request(NoHeader, "none", "idle")

\* router.use(apiKeyMiddleware) stands before every route: the request is
\* answered by the middleware or handed on to its route.
ApiKeyMiddleware ==
    /\ req.pc = "received"
    /\ req' = IF apiKeyMiddleware(req.auth) = "next"
              THEN [req EXCEPT !.pc = "route"]
              ELSE [req EXCEPT !.pc = "responded",
                               !.status = apiKeyMiddleware(req.auth)]
    /\ UNCHANGED <<wrapper, conv, audio>>

\* The handler of the route: it calls its wrapper operation and answers with
\* the result, or with 400 / 404 and the message of the error it caught.
RouteHandler ==
    /\ req.pc = "route"
    /\ \E status \in {"2xx", "4xx"} :
           req' = [req EXCEPT !.pc = "responded", !.called = req.route,
                              !.status = status]
    /\ UNCHANGED <<wrapper, conv, audio>>

----------------------------------------------------------------------------
\* convertToOggOpus(inputMimeType, base64Data)
\* (src/src/api/WA/AudioconvertToOggOpus.ts)

\* A string is a sequence of pieces: the head and the end of a data-URL
\* prefix, a character of the base64 alphabet, a character outside of it.
Pieces == {"data:", ";base64,", "A", "!"}

Payloads == UNION {[1..n -> Pieces] : n \in 0..MaxLen}

MimeTypes == {"audio/mp3", "audio/mpeg", "audio/wav", "audio/x-wav",
              "audio/aac"}

\* base64Data.replace(/^data:.*;base64,/, ''): .* is greedy, the match ends
\* with the last ';base64,' of the string.
cleanBase64Data(s) ==
    LET ends == {i \in 2..Len(s) : s[i] = ";base64,"} IN
    IF s # <<>> /\ s[1] = "data:" /\ ends # {}
    THEN SubSeq(s, (CHOOSE i \in ends : \A j \in ends : j <= i) + 1, Len(s))
    ELSE s

\* The characters of a piece that are in the base64 alphabet.
Base64Chars(piece) ==
    CASE piece = "data:" -> 4
      [] piece = ";base64," -> 6
      [] piece = "A" -> 1
      [] OTHER -> 0

RECURSIVE CountBase64(_)
CountBase64(s) ==
    IF s = <<>> THEN 0 ELSE Base64Chars(Head(s)) + CountBase64(Tail(s))

\* Buffer.from(cleanedBase64, 'base64').length: the decoder skips what is
\* not in the alphabet and yields 3 bytes for 4 characters.
inputBuffer(s) == (CountBase64(s) * 3) \div 4

\* Mutant: the conversion is started whatever the buffer holds.
emptyBuffer_Unchecked(length) == FALSE

\* if (inputBuffer.length === 0) return reject(...)
emptyBuffer(length) == length = 0

\* formatMap[inputMimeType]; "none" when the mime-type is not in the map and
\* command.inputFormat is not called
formatMap(mime) ==
    CASE mime \in {"audio/mp3", "audio/mpeg"} -> "mp3"
      [] mime \in {"audio/wav", "audio/x-wav"} -> "wav"
      [] OTHER -> "none"

Conversion(mime, data, pc) ==
    [mime |-> mime, data |-> data, pc |-> pc, ffmpeg |-> FALSE,
     format |-> "none", error |-> NoError]

NoConversion == Conversion("none", <<>>, "idle")

\* The body of the promise up to ffmpeg(inputStream)...pipe(): reject on an
\* empty buffer, else the ffmpeg command is built and started.
ConvertToOggOpus ==
    /\ conv.pc = "called"
    /\ IF emptyBuffer(inputBuffer(cleanBase64Data(conv.data)))
       THEN conv' = [conv EXCEPT !.pc = "rejected", !.error = "InvalidInput"]
       ELSE conv' = [conv EXCEPT !.pc = "running", !.ffmpeg = TRUE,
                                 !.format = formatMap(conv.mime)]
    /\ UNCHANGED <<wrapper, req, audio>>

\* command.on('error'): reject(new Error('Error en la conversión ...'))
FfmpegError ==
    /\ conv.pc = "running"
    /\ conv' = [conv EXCEPT !.pc = "rejected", !.error = "ConversionError"]
    /\ UNCHANGED <<wrapper, req, audio>>

\* command.on('end'): resolve with the output, or reject when there is none.
FfmpegEnd ==
    /\ conv.pc = "running"
    /\ \E output \in BOOLEAN :
           conv' = IF output
                   THEN [conv EXCEPT !.pc = "resolved"]
                   ELSE [conv EXCEPT !.pc = "rejected",
                                     !.error = "ConversionError"]
    /\ UNCHANGED <<wrapper, req, audio>>

----------------------------------------------------------------------------
\* The arguments of sendAudioAsVoice, from the caller to convertToOggOpus
\* (WhatsAppClientWrapper.ts, src/unnamed/part_002, AudioconvertToOggOpus.ts)

\* Audio as a caller sends it: base64 text, bare or as a data URL.
AudioData == {"QUFB", "data:audio/wav;base64,QUFB"}

Recipients == {"50611111111@c.us", "50622222222@c.us"}

\* A sendAudioAsVoice made directly on the wrapper or through the route
\* (via), with what the caller means by id, to, mimeType and base64; args is
\* the argument list the wrapper method is called with.
AudioCall(via, id, to, mimeType, base64) ==
    [via |-> via, id |-> id, to |-> to, mimeType |-> mimeType,
     base64 |-> base64, pc |-> "called", args |-> <<>>,
     inputMimeType |-> "none", base64Data |-> "none", format |-> "none"]

NoAudio == [AudioCall("none", "none", "none", "none", "none")
               EXCEPT !.pc = "idle"]

\* A caller of the wrapper gives the arguments in the order of the signature
\* sendAudioAsVoice(id, to, mimeType, base64).
AudioDirect ==
    /\ audio.pc = "called" /\ audio.via = "direct"
    /\ audio' = [audio EXCEPT
                    !.pc = "wrapper",
                    !.args = <<audio.id, audio.to, audio.mimeType,
                               audio.base64>>]
    /\ UNCHANGED <<wrapper, conv, req>>

\* The handler of POST /clients/:id/send-audio-as-voice: const {to,
\* audioBase64, mimeType} = req.body;
\* whatsappWrapper.sendAudioAsVoice(id, to, audioBase64, mimeType).
AudioRoute ==
    /\ audio.pc = "called" /\ audio.via = "route"
    /\ audio' = [audio EXCEPT
                    !.pc = "wrapper",
                    !.args = <<audio.id, audio.to, audio.base64,
                               audio.mimeType>>]
    /\ UNCHANGED <<wrapper, conv, req>>

\* sendAudioAsVoice(id, to, mimeType, base64) of a session with a handle: its
\* parameters are bound by position, and it calls convertToOggOpus(base64,
\* mimeType), whose parameters are (inputMimeType, base64Data).
SendAudioAsVoice ==
    /\ audio.pc = "wrapper"
    /\ LET mimeType == audio.args[3]
           base64 == audio.args[4]
           given == <<base64, mimeType>>
       IN  audio' = [audio EXCEPT !.pc = "transcoder",
                                  !.inputMimeType = given[1],
                                  !.base64Data = given[2]]
    /\ UNCHANGED <<wrapper, conv, req>>

\* convertToOggOpus picks the input format of ffmpeg by formatMap of what it
\* got as inputMimeType, and decodes what it got as base64Data.
AudioTranscode ==
    /\ audio.pc = "transcoder"
    /\ audio' = [audio EXCEPT !.pc = "done",
                              !.format = formatMap(audio.inputMimeType)]
    /\ UNCHANGED <<wrapper, conv, req>>

----------------------------------------------------------------------------
\* The specifications of the parts looked at by themselves

\* convertToOggOpus called with any mime-type and payload, no session around.
TranscoderInit ==
    /\ registry = [id \in Ids |-> NoRecord]
    /\ clients = [id \in Ids |-> NoClient]
    /\ qrCodes = [id \in Ids |-> NoQr]
    /\ authDir = [id \in Ids |-> FALSE]
    /\ engines = <<>>
    /\ init = [pc |-> "list", todo |-> <<>>, eng |-> 0, listed |-> {}]
    /\ calls = {}
    /\ handlers = {}
    /\ reply = NoReply
    /\ removed = {}
    /\ uncaught = NoError
    /\ ncalls = 0
    /\ nev = 0
    /\ conv \in {Conversion(mime, data, "called") :
                     mime \in MimeTypes, data \in Payloads}
    /\ req = NoRequest
    /\ audio = NoAudio

TranscoderNext ==
    \/ ConvertToOggOpus
    \/ FfmpegError
    \/ FfmpegEnd

TranscoderSpec == TranscoderInit /\ [][TranscoderNext]_vars

\* A sendAudioAsVoice with any mime-type and audio, direct or through the
\* route.
AudioInit ==
    /\ registry = [id \in Ids |-> NoRecord]
    /\ clients = [id \in Ids |-> NoClient]
    /\ qrCodes = [id \in Ids |-> NoQr]
    /\ authDir = [id \in Ids |-> FALSE]
    /\ engines = <<>>
    /\ init = [pc |-> "list", todo |-> <<>>, eng |-> 0, listed |-> {}]
    /\ calls = {}
    /\ handlers = {}
    /\ reply = NoReply
    /\ removed = {}
    /\ uncaught = NoError
    /\ ncalls = 0
    /\ nev = 0
    /\ conv = NoConversion
    /\ req = NoRequest
    /\ audio \in {AudioCall(via, id, to, mimeType, base64) :
                      via \in {"direct", "route"}, id \in Ids,
                      to \in Recipients, mimeType \in MimeTypes,
                      base64 \in AudioData}

AudioNext ==
    \/ AudioDirect
    \/ AudioRoute
    \/ SendAudioAsVoice
    \/ AudioTranscode

AudioSpec == AudioInit /\ [][AudioNext]_vars

\* A request for any route with any Authorization header, no session around.
ApiInit ==
    /\ registry = [id \in Ids |-> NoRecord]
    /\ clients = [id \in Ids |-> NoClient]
    /\ qrCodes = [id \in Ids |-> NoQr]
    /\ authDir = [id \in Ids |-> FALSE]
    /\ engines = <<>>
    /\ init = [pc |-> "list", todo |-> <<>>, eng |-> 0, listed |-> {}]
    /\ calls = {}
    /\ handlers = {}
    /\ reply = NoReply
    /\ removed = {}
    /\ uncaught = NoError
    /\ ncalls = 0
    /\ nev = 0
    /\ conv = NoConversion
    /\ req \in {Request(auth, route, "received") :
                    auth \in Headers, route \in Routes}
    /\ audio = NoAudio

ApiNext ==
    \/ ApiKeyMiddleware
    \/ RouteHandler

ApiSpec == ApiInit /\ [][ApiNext]_vars

----------------------------------------------------------------------------
\* The program

\* After construction: both maps empty; the table holds whatever an earlier
\* run left in it; initialize() has been called and awaits the repository.
Init ==
    /\ registry \in [Ids -> {NoRecord, "u1"}]
    /\ clients = [id \in Ids |-> NoClient]
    /\ qrCodes = [id \in Ids |-> NoQr]
    /\ authDir = [id \in Ids |-> registry[id] # NoRecord]
    /\ engines = <<>>
    /\ init = [pc |-> "list", todo |-> <<>>, eng |-> 0, listed |-> {}]
    /\ calls = {}
    /\ handlers = {}
    /\ reply = NoReply
    /\ removed = {}
    /\ uncaught = NoError
    /\ ncalls = 0
    /\ nev = 0
    /\ conv = NoConversion
    /\ req = NoRequest
    /\ audio = NoAudio

Next ==
    \/ InitList
    \/ InitStarted
    \/ InitStartFailed
    \/ \E id \in Ids, url \in Urls : AddClient(id, url)
    \/ \E c \in calls : AddClientInsertFailed(c)
    \/ \E c \in calls : AddClientInserted(c)
    \/ \E c \in calls : AddClientStarted(c)
    \/ \E c \in calls : AddClientStartFailed(c)
    \/ \E c \in calls : AddClientRolledBack(c)
    \/ \E configs \in Configs, url \in Urls : RestoreSessions(configs, url)
    \/ \E c \in calls : RestoreLookedUp(c)
    \/ \E c \in calls : RestoreInserted(c)
    \/ \E c \in calls : RestoreInsertFailed(c)
    \/ \E c \in calls : RestoreStarted(c)
    \/ \E c \in calls : RestoreStartFailed(c)
    \/ \E id \in Ids : RemoveClient(id)
    \/ \E c \in calls : RemoveDestroyed(c)
    \/ \E c \in calls : RemoveDestroyFailed(c)
    \/ \E c \in calls : RemoveDeleted(c)
    \/ \E c \in calls : RemoveDeleteFailed(c)
    \/ \E id \in Ids : GetClientStatus(id)
    \/ ListClients
    \/ \E id \in Ids, url \in Urls : SetWebhook(id, url)
    \/ \E c \in calls : SetWebhookUpdated(c)
    \/ \E c \in calls : SetWebhookFailed(c)
    \/ \E e \in DOMAIN engines : QrEvent(e)
    \/ \E h \in handlers : QrRendered(h)
    \/ \E h \in handlers : QrRenderFailed(h)
    \/ \E e \in DOMAIN engines : ReadyEvent(e)
    \/ \E e \in DOMAIN engines, type \in NotifyTypes, media \in BOOLEAN :
           EngineEvent(e, type, media)
    \/ \E h \in handlers : WebhookLookup(h)
    \/ \E h \in handlers : MessageLookup(h)
    \/ \E h \in handlers : MediaDownloaded(h)
    \/ \E h \in handlers : MediaDownloadFailed(h)
    \/ \E h \in handlers : WebhookLookupFailed(h)
    \/ \E h \in handlers : PostSucceeded(h)
    \/ \E h \in handlers : PostFailed(h)
    \/ \E op \in FacadeOps, id \in Ids : Facade(op, id)
    \/ \E c \in calls : Transcoded(c)
    \/ \E c \in calls : TranscodeFailed(c)
    \/ \E c \in calls : EngineCallResolved(c)
    \/ \E c \in calls : EngineCallRejected(c)
    \/ \E c \in calls : TargetNotFound(c)

Spec == Init /\ [][Next]_vars

----------------------------------------------------------------------------
\* Claims

HasHandle(id) == clients[id] # NoClient
HasRecord(id) == registry[id] # NoRecord

\* C1: addClient is all-or-nothing: when its handle start fails the record it
\* created is deleted and the error is returned, so after a failed addClient
\* neither a registry record nor a handle exists for the id.
C1_AddClientAllOrNothing ==
    \A id \in Ids :
        reply = Reply("addClient", id, "EngineError")
            => ~HasRecord(id) /\ ~HasHandle(id)

\* C2: addClient(id, ...) called while a record for id exists fails with
\* Conflict, starts no handle, and leaves the registry as it was.
C2_ConflictOnExistingRecord ==
    [][\A id \in Ids, url \in Urls :
          (AddClient(id, url) /\ HasRecord(id))
              => /\ reply' = Reply("addClient", id, "Conflict")
                 /\ registry' = registry
                 /\ engines' = engines
                 /\ clients' = clients
                 /\ calls' = calls]_vars

C2_Witness ==
    \E id \in Ids :
        /\ reply = Reply("addClient", id, "Conflict")
        /\ registry[id] = "u1"
        /\ engines = <<>>

\* A step constructs a new engine instance for id.
StartsEngineFor(id) ==
    /\ Len(engines') > Len(engines)
    /\ engines'[Len(engines')].id = id

\* C3: createClient(id) for an id that already has a handle is a no-op: no
\* step constructs an engine instance for an id that has a handle, and the
\* steps of initialize() and addClient() that call createClient for such an
\* id leave its handle in place.
C3_CreateClientIdempotent ==
    [][\A id \in Ids :
          HasHandle(id)
              => /\ ~StartsEngineFor(id)
                 /\ (InitList \/ \E c \in calls :
                                     AddClientInserted(c) /\ c.id = id)
                        => clients'[id] = clients[id]]_vars

\* initialize() met a record made by addClient whose handle was already in
\* the map, and constructed nothing for it.
C3_Witness ==
    /\ init.pc = "done"
    /\ "A" \in init.listed
    /\ registry["A"] = "u1|u2"
    /\ clients["A"] = 1
    /\ Len(engines) = 1

\* C4: initialize() attempts to start a handle for every registry record and
\* tolerates individual start failures: when it has ended, no record it
\* listed is left without a start attempt.
C4_InitializeToleratesFailures ==
    init.pc \in {"done", "failed"} => init.todo = <<>>

\* C5: once addClient(id, url) has returned successfully, an immediately
\* following getClientStatus(id) does not fail with NotFound.
C5_StatusAfterAddClient ==
    \A id \in Ids :
        reply = Reply("addClient", id, "ok")
            => getClientStatus(id) # "NotFound"

C5_Witness ==
    \E id \in Ids :
        /\ reply = Reply("addClient", id, "ok")
        /\ getClientStatus(id) = "inicializando"

\* C6: after an engine has raised ready for id, getClientStatus(id) is never
\* 'qr' and the QR cache holds no artifact for id, also when a qr handler was
\* suspended in the rendering when ready was handled.
C6_NoQrAfterReady ==
    \A e \in DOMAIN engines :
        (Live(e) /\ engines[e].info)
            => /\ qrCodes[engines[e].id] = NoQr
               /\ getClientStatus(engines[e].id) # "qr"

StateUnknown(e) == ~engines[e].info

\* C8: when the engine's state for an existing handle is null / unknown,
\* getClientStatus(id) reports 'qr'.
C8_UnknownStateIsQr ==
    \A id \in Ids :
        (reply.op = "getClientStatus" /\ reply.id = id /\ HasHandle(id)
            /\ StateUnknown(clients[id]))
            => reply.res = "qr"

\* C9: removeClient(id) for an id with neither handle nor record fails with
\* NotFound; after a successful removeClient(id) every getClientStatus(id)
\* fails with NotFound until the id is added again.
C9_RemovedIsNotFound ==
    [][\A id \in Ids :
          /\ (RemoveClient(id) /\ ~HasHandle(id) /\ ~HasRecord(id))
                 => reply' = Reply("removeClient", id, "NotFound")
          /\ id \in removed' => clients'[id] = NoClient]_vars

\* C10: removeClient(id) without a handle but with a registry record deletes
\* the record and the session folder and reports success; it fails with
\* NotFound only if no record existed either.
C10_RemoveWithoutHandle ==
    [][\A id \in Ids :
          (RemoveClient(id) /\ ~HasHandle(id) /\ HasRecord(id))
              => /\ reply' # Reply("removeClient", id, "NotFound")
                 /\ ~authDir'[id]]_vars

\* C11: removeClient(id) on a session with a live handle tears the engine
\* handle down first and only afterwards deletes the registry record and the
\* cached QR artifact: the step of removeClient that deletes them is taken
\* only when the handle the call found is destroyed and out of the map, and
\* no earlier step of the call touches the record or the QR cache.
C11_TeardownBeforeDelete ==
    [][\A c \in calls :
          /\ RemoveDeleted(c)
                 => /\ engines[c.eng].st = "destroyed"
                    /\ clients[c.id] # c.eng
          /\ (RemoveDestroyed(c) \/ RemoveDestroyFailed(c))
                 => /\ registry' = registry
                    /\ qrCodes' = qrCodes]_vars

\* A removeClient has completed: engine destroyed, record deleted.
C11_Witness ==
    \E id \in Ids, e \in DOMAIN engines :
        /\ reply = Reply("removeClient", id, "ok")
        /\ engines[e].id = id /\ engines[e].st = "destroyed"
        /\ registry[id] = NoRecord /\ qrCodes[id] = NoQr

\* The target URLs a destination string encodes, '|' being the delimiter.
Targets(dest) == IF dest = "u1|u2" THEN {"u1", "u2"} ELSE {dest}

\* C12: dispatching an event for a session whose destination string is
\* "u1|u2" produces one independent delivery attempt sequence to each of the
\* two URLs: every POST of the dispatch goes to one of the targets of the
\* destination string.
C12_FanOutPerTarget ==
    \A h \in handlers :
        h.pc = "post" => h.url \in Targets(h.dest)

\* C13: for one event and one target, sendWebhook stops at the first
\* successful POST, makes exactly 5 POST attempts when every attempt fails and
\* then gives up, never makes a 6th, and the delay before each retry is 1000
\* ms times the number of the failed attempt, strictly more than the delay
\* before the previous one.
C13_RetrySchedule ==
    [][\A h \in handlers :
          /\ h.pc = "post" => h.attempt \in 1..5
          /\ PostSucceeded(h) => handlers' = handlers \ {h}
          /\ PostFailed(h)
                 => IF h.attempt = 5
                    THEN handlers' = handlers \ {h}
                    ELSE \E r \in handlers' :
                            /\ handlers' = (handlers \ {h}) \cup {r}
                            /\ r.pc = "post" /\ r.url = h.url
                            /\ r.attempt = h.attempt + 1
                            /\ r.delay = 1000 * h.attempt
                            /\ r.delay > h.delay]_vars

\* The fifth attempt of a delivery is in flight, 4000 ms after the fourth.
C13_Witness ==
    \E h \in handlers :
        h.pc = "post" /\ h.attempt = 5 /\ h.delay = 4000

\* C14: when the registry yields no webhook destination for the session of an
\* event, the event is silently dropped: the handler ends without a POST and
\* without an error, while its update of the QR cache (set on qr, cleared on
\* ready) takes place all the same.
C14_DropWithoutDestination ==
    [][/\ \A h \in handlers :
             (WebhookLookup(h) /\ ~HasRecord(h.id))
                 => /\ handlers' = handlers \ {h}
                    /\ uncaught' = NoError
                    /\ qrCodes' = qrCodes
       /\ \A h \in handlers :
             (QrRendered(h) /\ ~HasRecord(h.id)) => qrCodes'[h.id] = h.qr
       /\ \A e \in DOMAIN engines :
             (ReadyEvent(e) /\ ~HasRecord(engines[e].id))
                 => qrCodes'[engines[e].id] = NoQr]_vars

\* A qr event was dropped for want of a destination, its artifact cached.
C14_Witness ==
    \E id \in Ids :
        /\ reply = Reply("qr", id, "dropped")
        /\ ~HasRecord(id)
        /\ qrCodes[id] # NoQr

\* C15: a webhook delivery that fails on every attempt is only logged:
\* sendWebhook returns normally, no error reaches anyone, the event is not
\* kept for a later replay, and the handle map, the QR cache and the registry
\* are what they would be had the delivery succeeded (the session is neither
\* torn down nor marked failed).
C15_DeliveryFailureIsLocal ==
    [][\A h \in handlers :
          (PostFailed(h) /\ h.attempt = 5)
              => /\ handlers' = handlers \ {h}
                 /\ uncaught' = NoError
                 /\ clients' = clients
                 /\ qrCodes' = qrCodes
                 /\ registry' = registry
                 /\ engines' = engines
                 /\ calls' = calls]_vars

\* A delivery was given up after its last attempt; the session is in place.
C15_Witness ==
    \E id \in Ids :
        /\ reply.id = id /\ reply.res = "gaveUp"
        /\ HasHandle(id) /\ HasRecord(id)
        /\ Live(clients[id])

\* The sessions other than id keep their handle and their QR artifact.
OthersUntouched(id) ==
    /\ clients' = clients
    /\ \A o \in Ids \ {id} : qrCodes'[o] = qrCodes[o]

\* C16: sessions are never cross-contaminated: every webhook POST caused by
\* an engine event of session A has a type equal to that event's category and
\* payload.clientId = A, is sent only to a URL taken from A's registry record,
\* and the event changes no handle and no QR-cache entry of another session.
C16_NoCrossContamination ==
    [][/\ \A e \in DOMAIN engines :
             /\ QrEvent(e)
                    => /\ OthersUntouched(engines[e].id)
                       /\ \A r \in handlers' \ handlers :
                              r.type = "qr" /\ r.eng = e
             /\ ReadyEvent(e)
                    => /\ OthersUntouched(engines[e].id)
                       /\ \A r \in handlers' \ handlers :
                              r.type = "ready" /\ r.eng = e
       /\ \A h \in handlers :
             /\ QrRendered(h) => OthersUntouched(h.id)
             /\ (WebhookLookup(h) /\ HasRecord(h.id))
                    => /\ OthersUntouched(h.id)
                       /\ \E r \in handlers' :
                              /\ handlers' = (handlers \ {h}) \cup {r}
                              /\ r.pc = "post"
                              /\ r.url = registry[h.id]
             /\ (PostSucceeded(h) \/ PostFailed(h))
                    => OthersUntouched(h.id)
             /\ \A r \in handlers' \ handlers :
                    (QrRendered(h) \/ WebhookLookup(h) \/ PostFailed(h))
                        => /\ r.type = h.type /\ r.eng = h.eng
                           /\ r.url \in {h.url, registry[h.id]}
       /\ \A r \in handlers' : r.id = engines'[r.eng].id]_vars

\* An event of one session is being posted to that session's destination
\* while another session has a different destination.
C16_Witness ==
    \E h \in handlers, o \in Ids :
        /\ h.pc = "post" /\ h.id # o
        /\ h.url = registry[h.id]
        /\ HasRecord(o) /\ registry[o] # registry[h.id]

\* C17: no failure that concerns a single session terminates the owning
\* process: an engine start failure during initialize(), a QR rendering or
\* registry lookup failure inside an event handler, and a failure to delete
\* the session folder in removeClient are all caught or returned to a caller,
\* never left as an uncaught exception or unhandled promise rejection.
C17_NoUncaughtError ==
    uncaught = NoError

\* C18: each messaging operation (sendMessage, sendMedia, sendAudioAsVoice,
\* getContacts, getChatMessages, reactToMessage) called with an id that has no
\* handle fails with NotFound towards its caller and makes no call to any
\* engine handle.
C18_FacadeNotFound ==
    [][\A op \in FacadeOps, id \in Ids :
          (Facade(op, id) /\ ~HasHandle(id))
              => /\ reply' = Reply(op, id, "NotFound")
                 /\ calls' = calls]_vars

\* Only qr events have been raised by the engine behind the handle of id.
OnlyQrRaised(id) ==
    /\ HasHandle(id)
    /\ engines[clients[id]].qr
    /\ ~engines[clients[id]].info

\* C19: sendMessage on a session for which the only event the engine has
\* raised so far is a qr event fails with NotReady and does not call the
\* engine's send.
C19_NotReadyAfterQr ==
    [][\A id \in Ids :
          (Facade("sendMessage", id) /\ OnlyQrRaised(id))
              => /\ reply' = Reply("sendMessage", id, "NotReady")
                 /\ calls' = calls]_vars

\* C20: sendAudioAsVoice runs the transcoder before it calls the engine; if
\* transcoding fails, the failure is returned to the caller as a send failure
\* and the engine's send is never called for that request.
C20_TranscodeBeforeSend ==
    [][/\ \A id \in Ids :
             Facade("sendAudioAsVoice", id)
                 => \A c \in calls' \ calls : c.pc = "transcode"
       /\ \A c \in calls :
             TranscodeFailed(c)
                 => /\ reply' = Reply("sendAudioAsVoice", c.id,
                                      "ConversionError")
                    /\ calls' = calls \ {c}
       /\ \A n \in calls' \ calls :
             (n.op = "sendAudioAsVoice" /\ n.pc = "send")
                 => \E c \in calls : c.pc = "transcode" /\ Transcoded(c)]_vars

\* A voice note failed in the transcoder; its session has a handle.
C20_Witness ==
    \E id \in Ids :
        /\ reply = Reply("sendAudioAsVoice", id, "ConversionError")
        /\ HasHandle(id)
        /\ \A c \in calls : c.op # "sendAudioAsVoice"

\* C21: getChatMessages(id, chatId, limit) for a chat id that the engine
\* cannot resolve fails with NotFound whether or not limit is supplied, and
\* fetchMessages is never called in that case.
C21_UnknownChatNotFound ==
    [][\A c \in calls :
          (TargetNotFound(c) /\ c.op = "getChatMessages")
              => /\ c.limit \in Limits
                 /\ reply' = Reply("getChatMessages", c.id, "NotFound")
                 /\ calls' = calls \ {c}]_vars

\* C23: the registry operation updateWebhook(id, destination) for an id that
\* has no record fails with NotFound and leaves the registry unchanged (no
\* record is created): a setWebhook whose update finds no record does not
\* return successfully.
C23_UpdateWebhookNotFound ==
    [][\A c \in calls :
          (c.op = "setWebhook" /\ c.pc = "update" /\ ~HasRecord(c.id)
              /\ c \notin calls')
              => /\ reply'.res \in {"NotFound", "DbError"}
                 /\ registry' = registry]_vars

\* A getChatMessages has failed for want of the chat while another one of
\* the same session, called with a limit, still waits for getChatById.
C21_Witness ==
    \E id \in Ids, c \in calls :
        /\ reply = Reply("getChatMessages", id, "NotFound")
        /\ HasHandle(id)
        /\ c.op = "getChatMessages" /\ c.id = id
        /\ c.limit = 50 /\ c.pc = "getChatById"

\* C22: convertToOggOpus called with a payload that is empty after any
\* data-URL prefix has been stripped fails with InvalidInput for every
\* mime-type and never invokes the external transcoding engine.
C22_EmptyPayloadInvalidInput ==
    (conv.pc \notin {"idle", "called"} /\ cleanBase64Data(conv.data) = <<>>)
        => /\ conv.pc = "rejected"
           /\ conv.error = "InvalidInput"
           /\ ~conv.ffmpeg

\* A payload that is nothing but a data-URL prefix was rejected.
C22_Witness ==
    /\ conv.data = <<"data:", "A", ";base64,">>
    /\ conv.mime = "audio/wav"
    /\ conv.pc = "rejected"
    /\ conv.error = "InvalidInput"

\* The Authorization header has the exact form 'Bearer <key>' for some key.
BearerForm(auth) ==
    /\ auth # NoHeader /\ Len(auth) >= 2
    /\ auth[1] = "Bearer" /\ auth[2] = " "
    /\ \A i \in 3..Len(auth) : auth[i] # " "

\* The key of a header of that form.
BearerKey(auth) == SubSeq(auth, 3, Len(auth))

\* C24: a request to any /api endpoint reaches its route handler, and so
\* any wrapper operation, only if its Authorization header has the exact form
\* 'Bearer <key>' with key among the configured API keys; otherwise it is
\* rejected, with 401 when the header is missing (or empty), 400 when it is
\* malformed, 403 when the key is unknown, and no wrapper operation runs.
C24_ApiKeyRequired ==
    /\ req.pc = "route" \/ req.called # "none"
           => BearerForm(req.auth) /\ BearerKey(req.auth) \in API_KEYS
    /\ (req.pc = "responded"
            /\ ~(BearerForm(req.auth) /\ BearerKey(req.auth) \in API_KEYS))
           => /\ req.called = "none"
              /\ req.status = IF req.auth \in {NoHeader, <<>>} THEN "401"
                               ELSE IF BearerForm(req.auth) THEN "403"
                               ELSE "400"

\* A request with the scheme in lower case was answered 400.
C24_Witness ==
    /\ req.auth = <<"bearer", " ", "k1">>
    /\ req.pc = "responded"
    /\ req.status = "400"
    /\ req.called = "none"

\* C25: when two handle starts for the same id overlap (initialize(),
\* restoreSessions() or addClient() both reaching createClient(id) before
\* either engine start has completed), only one engine instance is started
\* for the id and no started engine instance is left outside the handle map.
C25_OneEnginePerId ==
    /\ \A e1, e2 \in DOMAIN engines :
           (e1 # e2 /\ engines[e1].id = engines[e2].id)
               => ~(engines[e1].st = "starting" /\ engines[e2].st = "starting")
    /\ \A e \in DOMAIN engines :
           engines[e].st = "up" => clients[engines[e].id] = e

\* A lifecycle operation (addClient, restoreSessions, removeClient) is
\* suspended at an await.
LifecycleInProgress ==
    \E c \in calls : c.op \in {"addClient", "restoreSessions", "removeClient"}

\* initialize() has ended, by returning or by failing.
InitializeFinished == init.pc \in {"done", "failed"}

\* C26: whenever no lifecycle operation (initialize, addClient,
\* restoreSessions, removeClient) is in progress, every id that has a handle
\* in the handle map also has a record in the registry, for every
\* interleaving of those operations.
C26_HandleHasRecord ==
    (InitializeFinished /\ ~LifecycleInProgress)
        => \A id \in Ids : HasHandle(id) => HasRecord(id)

\* C27: during normal operation, i.e. whenever initialize() has finished and
\* no lifecycle operation is in progress, every id that has a record in the
\* registry has a live handle in the handle map.
C27_RecordHasHandle ==
    (InitializeFinished /\ ~LifecycleInProgress)
        => \A id \in Ids :
               HasRecord(id) => HasHandle(id) /\ Live(clients[id])

\* The other addClient calls for the id of c that are suspended.
Rivals(c) == {o \in calls \ {c} : o.op = "addClient" /\ o.id = c.id}

\* No removeClient of id has destroyed an engine: the id was never removed.
NeverRemoved(id) ==
    \A e \in DOMAIN engines :
        engines[e].id = id => engines[e].st # "destroyed"

C29_NoPostAfterRemove ==
    [][\A h \in handlers :
          (h.id \in removed /\ (WebhookLookup(h) \/ PostFailed(h)))
              => handlers' = handlers \ {h}]_vars

\* C30: after removeClient(id) has completed successfully, the QR cache
\* holds no artifact for id until the id is added again, also when a qr event
\* handler for id was suspended (rendering the QR image) while the removal
\* ran.
C30_NoQrAfterRemove ==
    \A id \in removed : qrCodes[id] = NoQr

\* The qr handlers of session id that are suspended in the rendering.
Rendering(id) == {h \in handlers : h.id = id /\ h.type = "qr" /\ h.pc = "render"}

\* C31: the QR cache retains at most one artifact per session and a new one
\* overwrites the old: once all qr handlers of a session have finished, the
\* cached artifact is the one of the most recently raised qr event of that
\* session, never an older one.  Artifacts are numbered in the order of their
\* events, so the last rendering of a session to finish never replaces the
\* cached artifact by one of a lower number.
C31_LatestQrCached ==
    [][\A h \in handlers :
          (QrRendered(h) /\ Rendering(h.id) = {h})
              => qrCodes'[h.id] >= qrCodes[h.id]]_vars

\* C32: there is no ordering guarantee between a dispatch retry and a newer
\* event of the same session: a QR event whose delivery is being retried can
\* be delivered to the subscriber after the Ready event that the engine
\* raised later for the same session.  The ready event leaves every delivery
\* in flight where it is, the delivery of one event ends no other, and a
\* POST in flight can succeed whatever else was delivered.
C32_RetryAfterNewerEvent ==
    [][/\ \A e \in DOMAIN engines :
             ReadyEvent(e) => \A h \in handlers : h \in handlers'
       /\ \A r \in handlers :
             PostSucceeded(r) => handlers' = handlers \ {r}
       /\ \A h \in handlers :
             h.pc = "post" => ENABLED PostSucceeded(h)]_vars

\* The ready event of an engine has just been delivered while a qr event the
\* same engine raised before it is still being retried.
C32_Witness ==
    \E h \in handlers :
        /\ h.type = "qr" /\ h.pc = "post" /\ h.attempt >= 2
        /\ engines[h.eng].info
        /\ reply = Reply("ready", h.id, "delivered")
        /\ \A r \in handlers : ~(r.type = "ready" /\ r.eng = h.eng)

\* The engine behind the handle of id is authenticated (client.info is set).
Authenticated(id) == HasHandle(id) /\ engines[clients[id]].info

\* C33: sendMessage hands the text to the engine only when the session's
\* engine handle is authenticated: while the session has no authenticated
\* engine handle (status 'inicializando' as well as status 'qr') it fails
\* with NotReady and no engine send is made.
C33_SendOnlyWhenAuthenticated ==
    [][\A id \in Ids :
          (Facade("sendMessage", id) /\ HasHandle(id) /\ ~Authenticated(id))
              => /\ reply' = Reply("sendMessage", id, "NotReady")
                 /\ calls' = calls]_vars

\* C34: after setWebhook(id, url) has completed successfully, every event
\* that the engine raises for id afterwards is delivered to url and never to
\* the previous destination (the destination is resolved from the registry
\* for each event, not fixed when the handle was created).  A setWebhook that
\* returns successfully for a session whose engine is up and in the handle
\* map leaves url as the destination of id in the registry,
\* and the handler of an event of a session that has a destination posts to
\* the one the registry holds when it looks it up.
C34_EventsGoToNewDestination ==
    [][/\ \A c \in calls :
             (SetWebhookUpdated(c) /\ HasHandle(c.id) /\ Live(clients[c.id]))
                 => registry'[c.id] = c.url
       /\ \A h \in handlers :
             (WebhookLookup(h) /\ HasRecord(h.id))
                 => \E r \in handlers' :
                        /\ handlers' = (handlers \ {h}) \cup {r}
                        /\ r.pc = "post" /\ r.url = registry[h.id]]_vars

\* C35: if removeClient(id) fails (the engine destroy fails, or the registry
\* deletion fails), the session is left intact: its handle is still in the
\* handle map, its registry record still exists and its QR cache entry is
\* unchanged.
C35_FailedRemoveLeavesSession ==
    [][\A c \in calls :
          (RemoveDestroyFailed(c) \/ RemoveDeleteFailed(c))
              => /\ clients'[c.id] = c.eng
                 /\ Live(c.eng)
                 /\ HasRecord(c.id) => registry'[c.id] = registry[c.id]
                 /\ qrCodes'[c.id] = qrCodes[c.id]]_vars

\* A step of the suspended handler h.
HandlerStep(h) ==
    \/ WebhookLookup(h) \/ MessageLookup(h) \/ WebhookLookupFailed(h)
    \/ MediaDownloaded(h) \/ MediaDownloadFailed(h)
    \/ PostSucceeded(h) \/ PostFailed(h)

\* C36: the handlers of message, disconnected, auth_failure and change_state
\* events change neither the handle map, nor the QR cache, nor the registry:
\* only a qr event sets a QR-cache entry and only a ready event (or
\* removeClient) clears one, so a disconnected or auth_failure event removes
\* neither the handle nor a cached QR artifact of the session.
C36_NotifyHandlersFrame ==
    [][/\ \A e \in DOMAIN engines, type \in NotifyTypes, media \in BOOLEAN :
             EngineEvent(e, type, media)
                 => clients' = clients /\ qrCodes' = qrCodes
                        /\ registry' = registry
       /\ \A h \in handlers :
             (h.type \in NotifyTypes /\ HandlerStep(h))
                 => clients' = clients /\ qrCodes' = qrCodes
                        /\ registry' = registry
       /\ \A id \in Ids :
             (qrCodes'[id] # qrCodes[id] /\ qrCodes'[id] # NoQr)
                 => \E h \in handlers :
                        h.type = "qr" /\ h.id = id /\ QrRendered(h)
       /\ \A id \in Ids :
             (qrCodes[id] # NoQr /\ qrCodes'[id] = NoQr)
                 => \/ \E e \in DOMAIN engines :
                           engines[e].id = id /\ ReadyEvent(e)
                    \/ \E c \in calls : c.id = id /\ RemoveDeleted(c)]_vars

\* An auth_failure event of a session with a cached QR artifact has been
\* delivered; the handle and the artifact are in place.
C36_Witness ==
    \E id \in Ids :
        /\ reply = Reply("auth_failure", id, "delivered")
        /\ HasHandle(id) /\ Live(clients[id])
        /\ qrCodes[id] # NoQr

\* C37: listClients returns one entry (id, webhook, QR, status) for every
\* registry record in every reachable state, and does not fail because some
\* record has no live handle, e.g. while an addClient for that id is still
\* starting its engine or after the restore of that id failed.
C37_ListClientsTotal ==
    reply.op = "listClients" => reply.res = "ok"

\* A step of the suspended restoreSessions call c.
RestoreStep(c) ==
    \/ RestoreLookedUp(c) \/ RestoreInserted(c) \/ RestoreInsertFailed(c)
    \/ RestoreStarted(c) \/ RestoreStartFailed(c)

\* The call c has gone on to the next of its configs, or has returned when
\* none was left.
NextConfigTaken(c) ==
    IF c.todo = <<>>
    THEN /\ reply' = Reply("restoreSessions", "all", "ok")
         /\ \A n \in calls' : n.op # "restoreSessions" \/ n \in calls \ {c}
    ELSE \E n \in calls' \ calls :
             /\ n.op = "restoreSessions" /\ n.pc = "get"
             /\ n.id = Head(c.todo) /\ n.todo = Tail(c.todo)

\* C38: restoreSessions processes every given config in order, creating the
\* registry record when it is missing and then starting the handle; a failure
\* for one config is caught, does not prevent the later configs from being
\* started, and restoreSessions itself never fails.
C38_RestoreSessionsTolerant ==
    [][/\ \A c \in calls :
             (c.op = "restoreSessions" /\ RestoreStep(c))
                 => /\ uncaught' = NoError
                    /\ reply' \in {NoReply, Reply("restoreSessions", "all", "ok")}
                    /\ \/ NextConfigTaken(c)
                       \/ \E n \in calls' \ calls :
                              /\ n.op = "restoreSessions"
                              /\ n.id = c.id /\ n.todo = c.todo
                              /\ <<c.pc, n.pc>> \in {<<"get", "insert">>,
                                                     <<"get", "start">>,
                                                     <<"insert", "start">>}
                    /\ (RestoreLookedUp(c) /\ ~HasRecord(c.id))
                           => \E n \in calls' : n = AtPc(c, "insert")
                    /\ RestoreInserted(c) => registry'[c.id] = c.url
                    /\ (~HasHandle(c.id)
                            /\ (RestoreInserted(c)
                                    \/ (RestoreLookedUp(c) /\ HasRecord(c.id))))
                           => StartsEngineFor(c.id)
                    /\ (RestoreInsertFailed(c) \/ RestoreStartFailed(c))
                           => /\ NextConfigTaken(c)
                              /\ registry' = registry
                              /\ clients' = clients
       /\ reply'.op = "restoreSessions" => reply'.res = "ok"]_vars

\* restoreSessions([A, B]) has returned: it created both records, the start
\* of A failed, and B was started after that.
C38_Witness ==
    /\ reply = Reply("restoreSessions", "all", "ok")
    /\ Len(engines) = 2
    /\ engines[1].id = "A" /\ engines[1].st = "failed"
    /\ engines[2].id = "B" /\ engines[2].st = "up"
    /\ clients["A"] = NoClient /\ clients["B"] = 2
    /\ registry["A"] = "u1|u2" /\ registry["B"] = "u1|u2"
    /\ ncalls = 1

\* C39: sendAudioAsVoice(id, to, mimeType, base64) gives the transcoder the
\* caller's base64 audio as the data to decode and the caller's mimeType as
\* the input mime-type, never the two exchanged, both for a direct call of
\* the wrapper method and for a call made through the send-audio-as-voice
\* route.
C39_TranscoderGetsAudioAndMime ==
    audio.pc \in {"transcoder", "done"}
        => /\ audio.base64Data = audio.base64
           /\ audio.inputMimeType = audio.mimeType

====
